---- MODULE Spec2Model ----
(***************************************************************************)
(* Chat2DB client: the table column editor (ColumnList) and the workspace  *)
(* panel toggle control.                                                   *)
(*                                                                         *)
(* ColumnList keeps two pieces of React state, dataSource (the ordered     *)
(* column rows) and editingKey (the key of the row in edit mode).  Every   *)
(* handler runs as one discrete UI event against the values of the latest  *)
(* committed render, so one handler is one atomic step.  uuidv4() is a     *)
(* source of keys that were never handed out before (nextKey).             *)
(*                                                                         *)
(* JS arrays are 0-based: the JS index i of an array is position i + 1 of  *)
(* the sequence that models it, and findIndex answers -1 for "no match".   *)
(***************************************************************************)
EXTENDS Integers, Sequences, FiniteSets

VARIABLES dataSource, editingKey, nextKey, snapshot,
          prevDataSource, prevEditingKey, lastOp, loaded, steps,
          panelLeft, panelRight, initLeft, initRight, leftClicks, rightClicks

colVars   == <<dataSource, editingKey, nextKey, snapshot,
               prevDataSource, prevEditingKey, lastOp, loaded, steps>>
panelVars == <<panelLeft, panelRight, initLeft, initRight, leftClicks, rightClicks>>
vars      == <<dataSource, editingKey, nextKey, snapshot,
               prevDataSource, prevEditingKey, lastOp, loaded, steps,
               panelLeft, panelRight, initLeft, initRight, leftClicks, rightClicks>>

(* ------------------------------ bounds --------------------------------- *)
MaxSteps  == 4      \* UI events handled by one ColumnList instance
MaxSrcLen == 2      \* columns of a loaded table
MaxClicks == 5      \* clicks counted per toggle region

(* ------------------------------ values --------------------------------- *)
Null   == -1        \* JS null
NoKey  == 0         \* the empty editing key '' and the id of an absent `over`
Values == {1, 2}    \* non-null field values typed into the form

FormFields == {"name", "columnSize", "columnType", "nullable", "comment"}

Min(a, b) == IF a < b THEN a ELSE b
Max(a, b) == IF a > b THEN a ELSE b

(* --------------------------- createInitialData ------------------------- *)
(* variant: the key is a constant instead of a new uuid *)
createInitialData_FixedKey(k) ==
  [key |-> 1, name |-> Null, columnSize |-> Null, columnType |-> Null,
   nullable |-> Null, comment |-> Null, primaryKey |-> Null,
   defaultValue |-> Null, dataType |-> Null, autoIncrement |-> Null,
   numericPrecision |-> Null, numericScale |-> Null,
   characterMaximumLength |-> Null]

createInitialData(k) ==
  [key |-> k, name |-> Null, columnSize |-> Null, columnType |-> Null,
   nullable |-> Null, comment |-> Null, primaryKey |-> Null,
   defaultValue |-> Null, dataType |-> Null, autoIncrement |-> Null,
   numericPrecision |-> Null, numericScale |-> Null,
   characterMaximumLength |-> Null]

(* A column as the backend delivers it in tableDetails.columnList. *)
SourceColumn(n, t, nl) ==
  [name |-> n, columnSize |-> Null, columnType |-> t, nullable |-> nl,
   comment |-> Null, primaryKey |-> Null, defaultValue |-> Null,
   dataType |-> Null, autoIncrement |-> Null, numericPrecision |-> Null,
   numericScale |-> Null, characterMaximumLength |-> Null]

SourceColumns == {SourceColumn(1, 1, 1), SourceColumn(2, 2, 0)}

SourceLists == UNION {[1..n -> SourceColumns] : n \in 0..MaxSrcLen}

(* variant: the copy loses the nullable flag *)
WithKey_DropsNullable(t, k) ==
  [key |-> k, name |-> t.name, columnSize |-> t.columnSize,
   columnType |-> t.columnType, nullable |-> Null,
   comment |-> t.comment, primaryKey |-> t.primaryKey,
   defaultValue |-> t.defaultValue, dataType |-> t.dataType,
   autoIncrement |-> t.autoIncrement,
   numericPrecision |-> t.numericPrecision, numericScale |-> t.numericScale,
   characterMaximumLength |-> t.characterMaximumLength]

(* { ...t, key: uuidv4() } *)
WithKey(t, k) ==
  [key |-> k, name |-> t.name, columnSize |-> t.columnSize,
   columnType |-> t.columnType, nullable |-> t.nullable,
   comment |-> t.comment, primaryKey |-> t.primaryKey,
   defaultValue |-> t.defaultValue, dataType |-> t.dataType,
   autoIncrement |-> t.autoIncrement,
   numericPrecision |-> t.numericPrecision, numericScale |-> t.numericScale,
   characterMaximumLength |-> t.characterMaximumLength]

(* tableDetails?.columnList?.map(t => ({...t, key: uuidv4()})) || []       *)
(* hasList = FALSE is a tableDetails object without a columnList.          *)
(* variant: one uuid generated outside the map and shared by all rows *)
LoadList_SharedKey(hasList, columnList, nk) ==
  IF hasList
    THEN [i \in 1..Len(columnList) |->
            [key |-> nk, name |-> columnList[i].name,
             columnSize |-> columnList[i].columnSize,
             columnType |-> columnList[i].columnType,
             nullable |-> columnList[i].nullable,
             comment |-> columnList[i].comment,
             primaryKey |-> columnList[i].primaryKey,
             defaultValue |-> columnList[i].defaultValue,
             dataType |-> columnList[i].dataType,
             autoIncrement |-> columnList[i].autoIncrement,
             numericPrecision |-> columnList[i].numericPrecision,
             numericScale |-> columnList[i].numericScale,
             characterMaximumLength |-> columnList[i].characterMaximumLength]]
    ELSE <<>>

LoadList(hasList, columnList, nk) ==
  IF hasList
    THEN [i \in 1..Len(columnList) |-> WithKey(columnList[i], nk + i - 1)]
    ELSE <<>>

(* ------------------------------ JS arrays ------------------------------ *)
(* previous.findIndex(i => i.key === k), 0-based, -1 when nothing matches *)
findIndex(ds, k) ==
  IF \E i \in 1..Len(ds) : ds[i].key = k
    THEN (CHOOSE i \in 1..Len(ds) :
            ds[i].key = k /\ \A j \in 1..(i - 1) : ds[j].key # k) - 1
    ELSE -1

(* Array.prototype.splice start clamping *)
SpliceStart(len, start) ==
  IF start < 0 THEN Max(len + start, 0) ELSE Min(start, len)

(* array after array.splice(start, 1) *)
SpliceRemove(array, start) ==
  LET s == SpliceStart(Len(array), start) IN
  IF s >= Len(array) THEN array
  ELSE [i \in 1..(Len(array) - 1) |-> IF i <= s THEN array[i] ELSE array[i + 1]]

(* array after array.splice(start, 0, item) *)
SpliceInsert(array, start, item) ==
  LET s == SpliceStart(Len(array), start) IN
  [i \in 1..(Len(array) + 1) |->
     IF i <= s THEN array[i] ELSE IF i = s + 1 THEN item ELSE array[i - 1]]

(* @dnd-kit/sortable arrayMove: the insert position is computed from the   *)
(* length before the removal, then the element is removed, then inserted.  *)
arrayMove(array, from, to) ==
  LET target == IF to < 0 THEN Len(array) + to ELSE to
      fromPos == SpliceStart(Len(array), from)
  IN  IF fromPos >= Len(array)
        THEN array   \* splice(from, 1)[0] is undefined: not reached here
        ELSE SpliceInsert(SpliceRemove(array, from), target, array[fromPos + 1])

(* ------------------------------ handlers ------------------------------- *)
(* onDragEnd: the new dataSource *)
onDragEnd(previous, activeId, overId) ==
  IF activeId # overId
    THEN arrayMove(previous, findIndex(previous, activeId),
                   findIndex(previous, overId))
    ELSE previous

(* value = value ? 1 : 0 for the nullable checkbox *)
FieldValue(name, value, checked) ==
  IF name = "nullable" THEN (IF checked THEN 1 ELSE 0) ELSE value

(* variant: the merge is not restricted to the row in edit mode *)
handelFieldsChange_AllRows(ds, ek, name, value, checked) ==
  [i \in 1..Len(ds) |->
     [ds[i] EXCEPT ![name] = IF name = "nullable"
                               THEN (IF checked THEN 1 ELSE 0) ELSE value]]

(* handelFieldsChange: the new dataSource *)
handelFieldsChange(ds, ek, name, value, checked) ==
  [i \in 1..Len(ds) |->
     IF ds[i].key = ek
       THEN [ds[i] EXCEPT ![name] = FieldValue(name, value, checked)]
       ELSE ds[i]]

(* variant: the new row is put in front *)
addData_Prepend(ds, newData) == <<newData>> \o ds

(* addData: the new dataSource *)
addData(ds, newData) == ds \o <<newData>>

(* variant: the filter predicate is inverted *)
deleteData_KeepsEdited(ds, ek) == SelectSeq(ds, LAMBDA i : i.key = ek)

(* deleteData: dataSource.filter(i => i.key !== editingKey) *)
deleteData(ds, ek) == SelectSeq(ds, LAMBDA i : i.key # ek)

(* variant: the action argument is ignored, every move is a move up *)
moveData_AlwaysUp(ds, ek, action) ==
  LET index == IF \E i \in 1..Len(ds) : ds[i].key = ek
                 THEN CHOOSE i \in 1..Len(ds) : ds[i].key = ek ELSE 0 IN
  IF index <= 1 THEN ds
  ELSE [ds EXCEPT ![index] = ds[index - 1], ![index - 1] = ds[index]]

(* moveData: the new dataSource *)
moveData(ds, ek, action) ==
  LET index == findIndex(ds, ek) IN
  IF index = -1 THEN ds
  ELSE IF action = "up"
    THEN IF index = 0 THEN ds
         ELSE [ds EXCEPT ![index + 1] = ds[index], ![index] = ds[index + 1]]
    ELSE IF index = Len(ds) - 1 THEN ds
         ELSE [ds EXCEPT ![index + 1] = ds[index + 2], ![index + 2] = ds[index + 1]]

(* variant: the accessor answers the sequence of the render before *)
getColumnListInfo_Stale == prevDataSource

(* function getColumnListInfo(): return dataSource *)
getColumnListInfo == dataSource

Op(op, a, b, f, c) == [op |-> op, a |-> a, b |-> b, field |-> f, checked |-> c]

Remember ==
  /\ steps < MaxSteps
  /\ steps' = steps + 1
  /\ prevDataSource' = dataSource
  /\ prevEditingKey' = editingKey

(* ------------------------------ ColumnList ----------------------------- *)
InitColumnList ==
  /\ dataSource = <<createInitialData(1)>>
  /\ editingKey = NoKey
  /\ nextKey = 2
  /\ snapshot = <<>>
  /\ prevDataSource = <<>>
  /\ prevEditingKey = NoKey
  /\ lastOp = Op("mount", 0, 0, "", FALSE)
  /\ loaded = <<>>
  /\ steps = 0

(* useEffect on [tableDetails]: a new table-details object arrives *)
Load ==
  \E hasList \in BOOLEAN : \E columnList \in SourceLists :
    /\ hasList \/ columnList = <<>>
    /\ Remember
    /\ dataSource' = LoadList(hasList, columnList, nextKey)
    /\ nextKey' = nextKey + Len(columnList)
    /\ loaded' = columnList
    /\ lastOp' = Op("load", 0, 0, "", hasList)
    /\ UNCHANGED <<editingKey, snapshot>>
    /\ UNCHANGED panelVars

(* a click on a cell of a row that is not in edit mode *)
Edit ==
  \E i \in 1..Len(dataSource) :
    /\ dataSource[i].key # editingKey
    /\ Remember
    /\ editingKey' = dataSource[i].key
    /\ lastOp' = Op("edit", dataSource[i].key, 0, "", FALSE)
    /\ UNCHANGED <<dataSource, nextKey, snapshot, loaded>>
    /\ UNCHANGED panelVars

AddData ==
  /\ Remember
  /\ dataSource' = addData(dataSource, createInitialData(nextKey))
  /\ editingKey' = createInitialData(nextKey).key
  /\ nextKey' = nextKey + 1
  /\ lastOp' = Op("add", nextKey, 0, "", FALSE)
  /\ UNCHANGED <<snapshot, loaded>>
  /\ UNCHANGED panelVars

DeleteData ==
  /\ Remember
  /\ dataSource' = deleteData(dataSource, editingKey)
  /\ lastOp' = Op("delete", 0, 0, "", FALSE)
  /\ UNCHANGED <<editingKey, nextKey, snapshot, loaded>>
  /\ UNCHANGED panelVars

MoveData ==
  \E action \in {"up", "down"} :
    /\ Remember
    /\ dataSource' = moveData(dataSource, editingKey, action)
    /\ lastOp' = Op("move", 0, 0, action, FALSE)
    /\ UNCHANGED <<editingKey, nextKey, snapshot, loaded>>
    /\ UNCHANGED panelVars

(* the dragged row is one of the rendered rows; over is a rendered row or  *)
(* null when the drag ends over no row                                     *)
DragEnd ==
  \E a \in 1..Len(dataSource) : \E o \in 0..Len(dataSource) :
    LET activeId == dataSource[a].key
        overId   == IF o = 0 THEN NoKey ELSE dataSource[o].key
    IN  /\ Remember
        /\ dataSource' = onDragEnd(dataSource, activeId, overId)
        /\ lastOp' = Op("drag", activeId, overId, "", FALSE)
        /\ UNCHANGED <<editingKey, nextKey, snapshot, loaded>>
        /\ UNCHANGED panelVars

FieldsChange ==
  \E name \in FormFields : \E value \in Values : \E checked \in BOOLEAN :
    /\ (name = "nullable") \/ ~checked
    /\ (name # "nullable") \/ value = 1
    /\ Remember
    /\ dataSource' = handelFieldsChange(dataSource, editingKey, name, value, checked)
    /\ lastOp' = Op("change", value, 0, name, checked)
    /\ UNCHANGED <<editingKey, nextKey, snapshot, loaded>>
    /\ UNCHANGED panelVars

(* the parent calls ref.current.getColumnListInfo() *)
GetColumnListInfo ==
  /\ Remember
  /\ snapshot' = getColumnListInfo
  /\ lastOp' = Op("get", 0, 0, "", FALSE)
  /\ UNCHANGED <<dataSource, editingKey, nextKey, loaded>>
  /\ UNCHANGED panelVars

(* ------------------------------ panel toggle --------------------------- *)
InitLayout ==
  /\ panelLeft \in BOOLEAN
  /\ panelRight \in BOOLEAN
  /\ initLeft = panelLeft
  /\ initRight = panelRight
  /\ leftClicks = 0
  /\ rightClicks = 0

(* the store's toggle actions *)
togglePanelLeft(layout)  == [layout EXCEPT !.panelLeft = ~layout.panelLeft]
togglePanelRight(layout) == [layout EXCEPT !.panelRight = ~layout.panelRight]

(* variant: both regions are wired to the left toggle *)
iconPanelOnClick_BothLeft(region, layout) == togglePanelLeft(layout)

(* onClick of the two iconPanel regions *)
iconPanelOnClick(region, layout) ==
  IF region = "left" THEN togglePanelLeft(layout) ELSE togglePanelRight(layout)

Layout == [panelLeft |-> panelLeft, panelRight |-> panelRight]

ClickLeft ==
  /\ leftClicks < MaxClicks
  /\ panelLeft' = iconPanelOnClick("left", Layout).panelLeft
  /\ panelRight' = iconPanelOnClick("left", Layout).panelRight
  /\ leftClicks' = leftClicks + 1
  /\ UNCHANGED <<initLeft, initRight, rightClicks>>
  /\ UNCHANGED colVars

ClickRight ==
  /\ rightClicks < MaxClicks
  /\ panelLeft' = iconPanelOnClick("right", Layout).panelLeft
  /\ panelRight' = iconPanelOnClick("right", Layout).panelRight
  /\ rightClicks' = rightClicks + 1
  /\ UNCHANGED <<initLeft, initRight, leftClicks>>
  /\ UNCHANGED colVars

(* ------------------------------ specifications ------------------------- *)
InitPanel == InitColumnList /\ InitLayout

(* ColumnList never reads the layout flags: one layout is enough for it *)
Init == InitPanel /\ panelLeft /\ panelRight

Next ==
  \/ Load
  \/ Edit
  \/ AddData
  \/ DeleteData
  \/ MoveData
  \/ DragEnd
  \/ FieldsChange
  \/ GetColumnListInfo

Spec == Init /\ [][Next]_vars

NextPanel ==
  \/ ClickLeft
  \/ ClickRight

SpecPanel == InitPanel /\ [][NextPanel]_vars

(* ------------------------------ properties ----------------------------- *)
(* Vocabulary of the properties, independent of the handlers above.        *)
Keys(s)       == {s[i].key : i \in 1..Len(s)}
KeySeq(s)     == [i \in 1..Len(s) |-> s[i].key]
Matches(s, k) == {i \in 1..Len(s) : s[i].key = k}
Without(s, i) == [j \in 1..(Len(s) - 1) |-> IF j < i THEN s[j] ELSE s[j + 1]]
Swapped(s, i, j) ==
  [k \in 1..Len(s) |-> IF k = i THEN s[j] ELSE IF k = j THEN s[i] ELSE s[k]]
Odd(n)        == n % 2 = 1
Flipped(b, n) == IF Odd(n) THEN ~b ELSE b
NonKeyFields  == DOMAIN SourceColumn(Null, Null, Null)
IsBlank(r)    == \A f \in NonKeyFields : r[f] = Null

(* C1: deleteData removes exactly the row whose key is the edit key, the   *)
(* other rows stay as they were and in order; when no row has the edit key *)
(* the sequence is unchanged.                                              *)
C1_DeleteRemovesEditedRow ==
  lastOp.op = "delete" =>
    /\ editingKey = prevEditingKey
    /\ IF Matches(prevDataSource, prevEditingKey) = {}
         THEN dataSource = prevDataSource
         ELSE \E i \in Matches(prevDataSource, prevEditingKey) :
                dataSource = Without(prevDataSource, i)

C1_Witness ==
  /\ lastOp.op = "delete"
  /\ Len(prevDataSource) = 3
  /\ prevDataSource[2].key = prevEditingKey
  /\ Len(dataSource) = 2

(* C2: moveData leaves the sequence unchanged when the edited row is first *)
(* (up), last (down) or absent; otherwise exactly the edited row and its   *)
(* neighbour (previous for up, next for down) are exchanged; length and    *)
(* edit key never change.                                                  *)
C2_MoveSwapsNeighbours ==
  lastOp.op = "move" =>
    /\ editingKey = prevEditingKey
    /\ Len(dataSource) = Len(prevDataSource)
    /\ IF Matches(prevDataSource, prevEditingKey) = {}
         THEN dataSource = prevDataSource
         ELSE \E i \in Matches(prevDataSource, prevEditingKey) :
                LET n == IF lastOp.field = "up" THEN i - 1 ELSE i + 1 IN
                IF n \in 1..Len(prevDataSource)
                  THEN dataSource = Swapped(prevDataSource, i, n)
                  ELSE dataSource = prevDataSource

C2_Witness ==
  /\ lastOp.op = "move"
  /\ lastOp.field = "down"
  /\ Len(prevDataSource) = 3
  /\ prevDataSource[2].key = prevEditingKey
  /\ dataSource[3].key = editingKey

(* C3: a drag-end whose dragged row differs from the drop target puts the  *)
(* dragged row at the index the drop target had before the drop, keeps the *)
(* relative order of the other rows and neither adds, loses nor duplicates *)
(* a row; a drag-end on the dragged row itself changes nothing.            *)
C3_DragMovesToDropTarget ==
  lastOp.op = "drag" =>
    IF lastOp.a = lastOp.b
      THEN dataSource = prevDataSource
      ELSE \E from \in Matches(prevDataSource, lastOp.a) :
           \E to \in Matches(prevDataSource, lastOp.b) :
             /\ Len(dataSource) = Len(prevDataSource)
             /\ dataSource[to] = prevDataSource[from]
             /\ Without(dataSource, to) = Without(prevDataSource, from)

(* C4: addData appends exactly one blank row with a fresh key, keeps the   *)
(* previous rows unchanged and in order, and makes the new row the one in  *)
(* edit mode.                                                              *)
C4_AddAppendsBlankRowInEditMode ==
  lastOp.op = "add" =>
    /\ Len(dataSource) = Len(prevDataSource) + 1
    /\ SubSeq(dataSource, 1, Len(prevDataSource)) = prevDataSource
    /\ IsBlank(dataSource[Len(dataSource)])
    /\ dataSource[Len(dataSource)].key \notin
         Keys(prevDataSource) \cup {prevEditingKey, NoKey}
    /\ editingKey = dataSource[Len(dataSource)].key

C4_Witness ==
  /\ lastOp.op = "add"
  /\ Len(prevDataSource) = 2
  /\ ~IsBlank(prevDataSource[1])
  /\ prevEditingKey \in Keys(prevDataSource)
  /\ editingKey = dataSource[3].key

(* C5: after a load the sequence has the length of the source column list, *)
(* its i-th row has the field values of the i-th source column and a fresh *)
(* key, and no row from before the load is left.                           *)
C5_LoadCopiesSourceColumns ==
  lastOp.op = "load" =>
    /\ Len(dataSource) = Len(loaded)
    /\ \A i \in 1..Len(dataSource) :
         /\ DOMAIN dataSource[i] = NonKeyFields \cup {"key"}
         /\ \A f \in NonKeyFields : dataSource[i][f] = loaded[i][f]
         /\ dataSource[i].key \notin Keys(prevDataSource) \cup {NoKey}
    /\ Keys(dataSource) \cap Keys(prevDataSource) = {}

C5_Witness ==
  /\ lastOp.op = "load"
  /\ Len(loaded) = 2
  /\ loaded[1] # loaded[2]
  /\ Len(prevDataSource) = 2
  /\ ~IsBlank(prevDataSource[1])
  /\ IsBlank(prevDataSource[2])

(* C6: a call of getColumnListInfo returns exactly the current column      *)
(* sequence, uncommitted adds, deletes and moves included.                 *)
C6_SnapshotIsCurrentSequence ==
  lastOp.op = "get" => snapshot = dataSource

C6_Witness ==
  /\ lastOp.op = "get"
  /\ Len(snapshot) = 2
  /\ snapshot[1].key > snapshot[2].key
  /\ snapshot = dataSource

(* C7: a click on a toggle region flips that panel's flag only, so each    *)
(* flag is its initial value negated once per click on its own region.     *)
C7_ToggleFlipsOwnFlagOnly ==
  /\ panelLeft = Flipped(initLeft, leftClicks)
  /\ panelRight = Flipped(initRight, rightClicks)

C7_Witness ==
  /\ leftClicks = 3
  /\ rightClicks = 2
  /\ panelLeft # initLeft
  /\ panelRight = initRight

(* C8: at most one row of the column sequence has the edit key.            *)
C8_AtMostOneRowInEditMode ==
  Cardinality(Matches(dataSource, editingKey)) <= 1

C8_Witness ==
  /\ Len(dataSource) = 3
  /\ lastOp.op = "edit"
  /\ Cardinality(Matches(dataSource, editingKey)) = 1
  /\ prevEditingKey \in Keys(dataSource)

(* C9: no two rows have the same key, and no operation other than a load   *)
(* changes the key of a row that is already there.                         *)
C9_KeysUniqueAndStable ==
  /\ \A i, j \in 1..Len(dataSource) :
       dataSource[i].key = dataSource[j].key => i = j
  /\ lastOp.op \in {"edit", "change", "get"} =>
       KeySeq(dataSource) = KeySeq(prevDataSource)
  /\ lastOp.op \in {"move", "drag"} =>
       /\ Keys(dataSource) = Keys(prevDataSource)
       /\ Len(dataSource) = Len(prevDataSource)
  /\ lastOp.op = "delete" =>
       Keys(dataSource) \subseteq Keys(prevDataSource)
  /\ lastOp.op = "add" =>
       SubSeq(KeySeq(dataSource), 1, Len(prevDataSource)) = KeySeq(prevDataSource)

C9_Witness ==
  /\ Len(dataSource) = 3
  /\ lastOp.op = "change"
  /\ \E i \in 1..3 : ~IsBlank(dataSource[i]) /\ dataSource[i].key = editingKey
  /\ KeySeq(dataSource) = KeySeq(prevDataSource)

(* C10: a field-change event for field f with value v sets f to v (1 or 0  *)
(* for the nullable checkbox) in the row that has the edit key and changes *)
(* nothing else: not that row's other fields or key, no other row, not the *)
(* order, the length or the edit key.                                      *)
C10_FieldChangeMergesIntoEditedRow ==
  lastOp.op = "change" =>
    /\ editingKey = prevEditingKey
    /\ Len(dataSource) = Len(prevDataSource)
    /\ \A i \in 1..Len(dataSource) :
         IF prevDataSource[i].key = prevEditingKey
           THEN /\ dataSource[i][lastOp.field] =
                     (IF lastOp.field = "nullable"
                        THEN (IF lastOp.checked THEN 1 ELSE 0)
                        ELSE lastOp.a)
                /\ DOMAIN dataSource[i] = DOMAIN prevDataSource[i]
                /\ \A f \in DOMAIN prevDataSource[i] \ {lastOp.field} :
                     dataSource[i][f] = prevDataSource[i][f]
           ELSE dataSource[i] = prevDataSource[i]

C10_Witness ==
  /\ lastOp.op = "change"
  /\ lastOp.field = "nullable"
  /\ ~lastOp.checked
  /\ Len(dataSource) = 2
  /\ dataSource[1].key = editingKey
  /\ dataSource[1].nullable = 0
  /\ prevDataSource[1].nullable = 1
  /\ dataSource[2] = prevDataSource[2]

====
